---- MODULE Spec2Model ----
(***************************************************************************)
(* Model of mk.py, the build script of presheaf: one run of the script,    *)
(* from module load to process exit.  The script is sequential; every      *)
(* top-level statement group of mk.py is one action.                       *)
(***************************************************************************)
EXTENDS Integers, Sequences, FiniteSets, TLC

VARIABLES
    os_name,               \* os.name of the host
    argv,                  \* the command line, a sequence of option tokens
    pc,                    \* position of the module-level code
    CURRENT_BUILDER,       \* module globals, mk.py 38-41, reassigned at 245-252
    CURRENT_CPP_COMPILER,
    CURRENT_C_COMPILER,
    CURRENT_LINKER,
    CMAKE_FLAGS,           \* module global, mk.py 44-56
    args,                  \* the argparse namespace, mk.py 243
    build_exists,          \* os.path.exists("./build")
    cache_exists,          \* os.path.exists(CMAKE_CACHE_PATH)
    bin_files,             \* names of the entries of ./build/bin
    produced,              \* names the project's build writes to ./build/bin
    out,                   \* what the run printed and launched, in order
    exit_code              \* exit status of the process, NoExit while running

vars == <<os_name, argv, pc, CURRENT_BUILDER, CURRENT_CPP_COMPILER,
          CURRENT_C_COMPILER, CURRENT_LINKER, CMAKE_FLAGS, args, build_exists,
          cache_exists, bin_files, produced, out, exit_code>>

globals == <<CURRENT_BUILDER, CURRENT_CPP_COMPILER, CURRENT_C_COMPILER,
             CURRENT_LINKER, CMAKE_FLAGS>>
fs == <<build_exists, cache_exists, bin_files>>
host == <<os_name, argv, produced>>

-----------------------------------------------------------------------------
(* Bounds of the exploration.                                              *)

\* longest command line made of action flags in arbitrary order
MaxArgs == 3
\* most entries of ./build/bin
MaxBins == 2

-----------------------------------------------------------------------------
(* Settings, mk.py 21-29.                                                  *)

POSIX_BUILDER == "Ninja"
POSIX_CPP_COMPILER == "clang++"
POSIX_C_COMPILER == "clang"
POSIX_LINKER == "mold"

WIN_BUILDER == "Ninja"
WIN_CPP_COMPILER == "clang-cl"
WIN_C_COMPILER == "clang-cl"
WIN_LINKER == "lld-link"

\* Python's None: a value no option value of the model equals
None == "<None>"
\* exit_code while the process runs
NoExit == -1
\* outcome of subprocess.run when the program cannot be launched (OSError)
LaunchError == -2
\* outcomes of one subprocess.run: exit 0, a non-zero exit, no launch
Outcomes == {0, 1, LaunchError}

os_choose(posix, win) == IF os_name = "posix" THEN posix ELSE win

BINARY_EXT == os_choose("", ".exe")
BUILD_DIR == "build"
BIN_DIR == BUILD_DIR \o "/bin"
CMAKE_CACHE_PATH == BUILD_DIR \o "/CMakeCache.txt"

\* mk.py 44-56, evaluated with the globals as they are at that point
cmake_flags(builder, cpp, c, linker) ==
    << "-G=" \o builder,
       "-DCMAKE_CXX_COMPILER=" \o cpp,
       "-DCMAKE_C_COMPILER=" \o c >>
    \o (IF linker = "mold"
        THEN << "-DCMAKE_EXE_LINKER_FLAGS='-fuse-ld=" \o linker \o "'",
                "-DCMAKE_SHARED_LINKER_FLAGS='-fuse-ld=" \o linker \o "'" >>
        ELSE << >>)

DEBUG_FLAGS ==
    << "-DCMAKE_BUILD_TYPE=Debug", "-DPSH_DEBUG=ON",
       "-DPSH_ENABLE_LOGGING=ON", "-DPSH_BUILD_TESTS=ON" >>
RELEASE_FLAGS ==
    << "-DCMAKE_BUILD_TYPE=Release", "-DPSH_DEBUG=OFF",
       "-DPSH_ENABLE_LOGGING=OFF", "-DPSH_BUILD_TESTS=ON" >>

-----------------------------------------------------------------------------
(* The command line and argparse, mk.py 197-243.                           *)

Tok(o, v) == [opt |-> o, val |-> v]

\* the namespace before any option is read: the defaults of mk.py 201-241
parser_defaults ==
    [ c_compiler |-> None, cpp_compiler |-> None, linker |-> None,
      builder |-> None, clean |-> FALSE, build |-> None, test |-> None,
      clear_cache |-> FALSE, fmt |-> FALSE, spell |-> FALSE ]

\* one option applied to the namespace: store, store_true, or nargs="?" with
\* its const
parse_option(ns, t) ==
    CASE t.opt = "--c-compiler" -> [ns EXCEPT !.c_compiler = t.val]
      [] t.opt = "--cpp-compiler" -> [ns EXCEPT !.cpp_compiler = t.val]
      [] t.opt = "--linker" -> [ns EXCEPT !.linker = t.val]
      [] t.opt = "--builder" -> [ns EXCEPT !.builder = t.val]
      [] t.opt = "--clean" -> [ns EXCEPT !.clean = TRUE]
      [] t.opt = "--build" ->
            [ns EXCEPT !.build = IF t.val = None THEN "debug" ELSE t.val]
      [] t.opt = "--test" ->
            [ns EXCEPT !.test = IF t.val = None THEN "all" ELSE t.val]
      [] t.opt = "--clear-cache" -> [ns EXCEPT !.clear_cache = TRUE]
      [] t.opt = "--fmt" -> [ns EXCEPT !.fmt = TRUE]
      [] t.opt = "--spell" -> [ns EXCEPT !.spell = TRUE]

RECURSIVE parse_from(_, _)
parse_from(ns, toks) ==
    IF toks = << >> THEN ns
    ELSE parse_from(parse_option(ns, Head(toks)), Tail(toks))

parse_args(toks) == parse_from(parser_defaults, toks)

-----------------------------------------------------------------------------
(* Output and subprocesses, mk.py 86-112.                                  *)

\* One line of the run's record.  act is the command_* function the
\* dispatcher called; kind is the printing function (header, INFO, ERROR,
\* RUN) or "Traceback" for the interpreter's report of an uncaught exception;
\* rc is the outcome of the launch for RUN and the test index for INFO.
Ev(a, k, w, r) == [act |-> a, kind |-> k, words |-> w, rc |-> r]

header(a, action) == << Ev(a, "header", <<action>>, 0) >>
log_info(a, subact, idx) == << Ev(a, "INFO", <<subact>>, idx) >>
log_error(a, msg) == << Ev(a, "ERROR", <<msg>>, 0) >>

\* log_command, then subprocess.run without check=True: the return code is
\* dropped, only a failed launch raises
sp_run(a, cmd, rc) == << Ev(a, "RUN", cmd, rc) >>

run_bin(a, bin_path, rc) == sp_run(a, <<bin_path>>, rc)

\* the result of a call: what it printed, whether an exception left it, and
\* the file system after it
Res(ev, raised, be, ce, bf) ==
    [ev |-> ev, raised |-> raised, be |-> be, ce |-> ce, bf |-> bf]

-----------------------------------------------------------------------------
(* Test discovery, mk.py 115-124.                                          *)

\* fnmatch of a name against a pattern whose only special character is "*"
RECURSIVE fnmatch(_, _)
fnmatch(name, pat) ==
    IF pat = "" THEN name = ""
    ELSE IF Head(pat) = "*"
         THEN fnmatch(name, Tail(pat))
              \/ (name /= "" /\ fnmatch(Tail(name), pat))
         ELSE name /= "" /\ Head(name) = Head(pat)
              /\ fnmatch(Tail(name), Tail(pat))

\* code-point order of the characters that occur in the model's names
Alphabet == "*-./0123456789<>ABCDEFGHIJKLMNOPQRSTUVWXYZ_abcdefghijklmnopqrstuvwxyz"
ord(c) == CHOOSE i \in 1..Len(Alphabet) : SubSeq(Alphabet, i, i) = c

\* str.__lt__
RECURSIVE str_lt(_, _)
str_lt(s, t) ==
    IF t = "" THEN FALSE
    ELSE IF s = "" THEN TRUE
    ELSE IF Head(s) = Head(t) THEN str_lt(Tail(s), Tail(t))
    ELSE ord(Head(s)) < ord(Head(t))

\* list.sort() of a list of distinct strings
RECURSIVE sorted(_)
sorted(S) ==
    IF S = {} THEN << >>
    ELSE LET m == CHOOSE x \in S : \A y \in S \ {x} : str_lt(x, y)
         IN  <<m>> \o sorted(S \ {m})

\* glob.glob(str(BIN_DIR / search)): the entries of ./build/bin that match
glob(search, bf) == { BIN_DIR \o "/" \o n : n \in { m \in bf : fnmatch(m, search) } }

\* search_for that forgets the "*" after the pattern
search_for_no_trailing_star(pattern) ==
    IF pattern = None THEN "test*" \o BINARY_EXT
    ELSE "test*" \o pattern \o BINARY_EXT

search_for(pattern) ==
    IF pattern = None THEN "test*" \o BINARY_EXT
    ELSE "test*" \o pattern \o "*" \o BINARY_EXT

\* the loop of run_tests over tests[i..], with the outcome rcs[i] of each
\* launch; a launch that raises leaves the loop
RECURSIVE run_each(_, _, _, _)
run_each(a, tests, rcs, i) ==
    IF i > Len(tests) THEN [ev |-> << >>, raised |-> FALSE]
    ELSE LET here == log_info(a, tests[i], i) \o run_bin(a, tests[i], rcs[i])
         IN  IF rcs[i] = LaunchError THEN [ev |-> here, raised |-> TRUE]
             ELSE LET rest == run_each(a, tests, rcs, i + 1)
                  IN  [ev |-> here \o rest.ev, raised |-> rest.raised]

\* run_tests(pattern): every way the run can go
run_tests(a, pattern, bf) ==
    LET tests == sorted(glob(search_for(pattern), bf))
    IN  { LET r == run_each(a, tests, rcs, 1)
          IN  [ev |-> header(a, "Running tests") \o r.ev, raised |-> r.raised]
          : rcs \in [1..Len(tests) -> Outcomes] }

-----------------------------------------------------------------------------
(* The commands, mk.py 127-194.  Each is the set of ways one call can go,  *)
(* given the file system it starts from.                                   *)

\* os.walk over ./src, ./include and ./tests
get_all_sources == << "src/presheaf.cc", "include/presheaf.h", "tests/test_a.cc" >>

command_format(be, ce, bf) ==
    { Res(header("format", "Formatting all source and header files")
            \o sp_run("format", <<"clang-format", "-i">> \o get_all_sources, rc),
          rc = LaunchError, be, ce, bf) : rc \in Outcomes }

command_spell(be, ce, bf) ==
    { Res(header("spell", "Checking for spelling typos")
            \o sp_run("spell", <<"codespell">>, rc),
          rc = LaunchError, be, ce, bf) : rc \in Outcomes }

\* os.remove(CMAKE_CACHE_PATH): FileNotFoundError is not caught
command_clear_cache(be, ce, bf) ==
    { Res(header("clear_cache", "Cleaning CMake cache"), ~ce, be, FALSE, bf) }

\* command_clean whose removal leaves the directory in place
command_clean_keeps_directory(be, ce, bf) ==
    LET h == header("clean", "Removing existing build directory")
        failed == Res(h \o log_error("clean", "Unable to remove build directory due to error"),
                      FALSE, be, ce, bf)
    IN  IF be THEN { Res(h, FALSE, be, ce, bf), failed } ELSE { failed }

\* shutil.rmtree("./build"): an absent directory always raises OSError, a
\* present one is removed or (denied, busy) raises OSError; OSError is caught
command_clean(be, ce, bf) ==
    LET h == header("clean", "Removing existing build directory")
        failed == Res(h \o log_error("clean", "Unable to remove build directory due to error"),
                      FALSE, be, ce, bf)
    IN  IF be THEN { Res(h, FALSE, FALSE, FALSE, {}), failed } ELSE { failed }

\* configure, with the flags of the profile in front of the toolchain flags
configure_profile_first(a, build_flags, be, ce, bf) ==
    LET h == header(a, "Resolving third-party dependencies")
             \o header(a, "Generating the build directory")
        cmd == <<"cmake">> \o build_flags \o CMAKE_FLAGS
               \o <<"-S", ".", "-B", BUILD_DIR>>
    IN  { Res(h \o sp_run(a, cmd, 0), FALSE, TRUE, TRUE, bf),
          Res(h \o sp_run(a, cmd, 1), FALSE, TRUE, FALSE, bf),
          Res(h \o sp_run(a, cmd, 1), FALSE, FALSE, FALSE, bf),
          Res(h \o sp_run(a, cmd, LaunchError), TRUE, be, ce, bf) }

\* the generator: exit 0 writes the build directory and its cache; a
\* non-zero exit may or may not have created the directory
configure(a, build_flags, be, ce, bf) ==
    LET h == header(a, "Resolving third-party dependencies")
             \o header(a, "Generating the build directory")
        cmd == <<"cmake">> \o CMAKE_FLAGS \o build_flags
               \o <<"-S", ".", "-B", BUILD_DIR>>
    IN  { Res(h \o sp_run(a, cmd, 0), FALSE, TRUE, TRUE, bf),
          Res(h \o sp_run(a, cmd, 1), FALSE, TRUE, FALSE, bf),
          Res(h \o sp_run(a, cmd, 1), FALSE, FALSE, FALSE, bf),
          Res(h \o sp_run(a, cmd, LaunchError), TRUE, be, ce, bf) }

\* the build driver: it can exit 0 only over a configured directory, and then
\* ./build/bin holds what the project produces
build_driver(a, prod, be, ce, bf) ==
    LET h == header(a, "Building project")
        cmd == <<"cmake", "--build", BUILD_DIR>>
    IN  { Res(h \o sp_run(a, cmd, 1), FALSE, be, ce, bf),
          Res(h \o sp_run(a, cmd, LaunchError), TRUE, be, ce, bf) }
        \cup (IF be /\ ce
              THEN { Res(h \o sp_run(a, cmd, 0), FALSE, be, ce, prod) }
              ELSE {})

\* the call that went as r followed by one that went as n
joined(r, n) == Res(r.ev \o n.ev, n.raised, n.be, n.ce, n.bf)

\* command_build without the test on the build directory
command_build_always_configures(a, build_flags, prod, be, ce, bf) ==
    UNION { IF r.raised THEN {r}
            ELSE { joined(r, n) : n \in build_driver(a, prod, r.be, r.ce, r.bf) }
            : r \in configure(a, build_flags, be, ce, bf) }

\* command_build that does not hand build_flags to the generator
command_build_drops_flags(a, build_flags, prod, be, ce, bf) ==
    LET first == IF ~be THEN configure(a, << >>, be, ce, bf)
                 ELSE { Res(<< >>, FALSE, be, ce, bf) }
    IN  UNION { IF r.raised THEN {r}
                ELSE { joined(r, n) : n \in build_driver(a, prod, r.be, r.ce, r.bf) }
                : r \in first }

\* an exception in the generator's launch leaves command_build at once
command_build(a, build_flags, prod, be, ce, bf) ==
    LET first == IF ~be THEN configure(a, build_flags, be, ce, bf)
                 ELSE { Res(<< >>, FALSE, be, ce, bf) }
    IN  UNION { IF r.raised THEN {r}
                ELSE { joined(r, n) : n \in build_driver(a, prod, r.be, r.ce, r.bf) }
                : r \in first }

\* os.path.exists(BIN_DIR / pattern)
bin_exists(pattern, be, bf) == be /\ pattern \in bf

\* select_and_run that looks for an entry named by the pattern before it
\* compares the pattern with "all"
select_and_run_exact_first(pattern, prod, be, ce, bf) ==
    IF bin_exists(pattern, be, bf)
    THEN { Res(run_bin("test", pattern, rc), rc = LaunchError, be, ce, bf)
           : rc \in Outcomes }
    ELSE IF pattern = "all"
    THEN { Res(t.ev, t.raised, be, ce, bf) : t \in run_tests("test", None, bf) }
    ELSE { Res(t.ev, t.raised, be, ce, bf) : t \in run_tests("test", pattern, bf) }

\* command_test after its call of command_build: the choice on the pattern
select_and_run(pattern, prod, be, ce, bf) ==
    IF pattern = "all"
    THEN { Res(t.ev, t.raised, be, ce, bf) : t \in run_tests("test", None, bf) }
    ELSE IF bin_exists(pattern, be, bf)
    THEN { Res(run_bin("test", pattern, rc), rc = LaunchError, be, ce, bf)
           : rc \in Outcomes }
    ELSE { Res(t.ev, t.raised, be, ce, bf) : t \in run_tests("test", pattern, bf) }

\* command_test with the call of command_build left out
command_test_without_build(pattern, prod, be, ce, bf) ==
    select_and_run(pattern, prod, be, ce, bf)

\* command_test that builds with the Debug flags
command_test_with_debug_flags(pattern, prod, be, ce, bf) ==
    UNION { IF r.raised THEN {r}
            ELSE { joined(r, n) :
                   n \in select_and_run(pattern, prod, r.be, r.ce, r.bf) }
            : r \in command_build("test", DEBUG_FLAGS, prod, be, ce, bf) }

\* command_build(), then the choice on the pattern; an exception in
\* command_build leaves command_test at once
command_test(pattern, prod, be, ce, bf) ==
    UNION { IF r.raised THEN {r}
            ELSE { joined(r, n) :
                   n \in select_and_run(pattern, prod, r.be, r.ce, r.bf) }
            : r \in command_build("test", << >>, prod, be, ce, bf) }

-----------------------------------------------------------------------------
(* The command lines, hosts and file systems explored.                     *)

OsNames == {"posix", "nt", "java"}

ActionFlags ==
    { Tok("--fmt", None), Tok("--spell", None), Tok("--clean", None),
      Tok("--clear-cache", None), Tok("--build", None), Tok("--test", None) }

BuildTokens == { Tok("--build", v) : v \in {None, "debug", "release"} }
TestTokens == { Tok("--test", v) : v \in {None, "all", "a", "t", "test_b"} }
OverrideTokens ==
    { Tok("--builder", "Make"), Tok("--cpp-compiler", "g++"),
      Tok("--c-compiler", "gcc"), Tok("--linker", "mold"),
      Tok("--linker", "lld") }

\* the sequences over S of length at most n that name no option twice
RECURSIVE SeqsUpTo(_, _)
SeqsUpTo(S, n) ==
    IF n = 0 THEN { << >> }
    ELSE LET shorter == SeqsUpTo(S, n - 1)
         IN  shorter \cup
             { Append(q, t) : q \in shorter, t \in S } 

Distinct(q) == \A i, j \in 1..Len(q) : i /= j => q[i].opt /= q[j].opt

\* one optional token of each set, in the order of the sets
RECURSIVE Picks(_)
Picks(sets) ==
    IF sets = << >> THEN { << >> }
    ELSE LET rest == Picks(Tail(sets))
         IN  rest \cup { <<t>> \o r : t \in Head(sets), r \in rest }

\* action flags in any order; the four actions on the build directory with
\* their values; toolchain overrides in front of a build or a test
Invocations ==
    { q \in SeqsUpTo(ActionFlags, MaxArgs) : Distinct(q) }
    \cup Picks(<< {Tok("--clean", None)}, {Tok("--clear-cache", None)},
                  BuildTokens, TestTokens >>)
    \cup { o \o a : o \in { q \in SeqsUpTo(OverrideTokens, MaxArgs) : Distinct(q) },
                    a \in { <<Tok("--build", "release")>>, <<Tok("--test", None)>> } }

\* what ./build/bin can hold: any of Dirs for a command line that only tests,
\* DefaultBins for the others
TestOnly == { <<t>> : t \in TestTokens }
BinNames == {"test_a", "test_ab", "test_b", "all", "test_a.exe"}
DefaultBins == {"test_a", "test_b"}
Dirs == { d \in SUBSET BinNames : Cardinality(d) <= MaxBins }

Init ==
    /\ os_name \in OsNames
    /\ argv \in Invocations
    /\ pc = "load"
    /\ CURRENT_BUILDER = None
    /\ CURRENT_CPP_COMPILER = None
    /\ CURRENT_C_COMPILER = None
    /\ CURRENT_LINKER = None
    /\ CMAKE_FLAGS = << >>
    /\ args = parser_defaults
    /\ build_exists \in BOOLEAN
    /\ cache_exists \in (IF build_exists THEN BOOLEAN ELSE {FALSE})
    /\ produced \in (IF argv \in TestOnly THEN Dirs ELSE {DefaultBins})
    /\ bin_files \in (IF build_exists THEN {{}, produced} ELSE {{}})
    /\ out = << >>
    /\ exit_code = NoExit

-----------------------------------------------------------------------------
(* The module-level code, mk.py 38-56 and 243-269.                         *)

\* mk.py 38-56: the defaults of the host and the generator flags from them
Load ==
    /\ pc = "load"
    /\ CURRENT_BUILDER' = os_choose(POSIX_BUILDER, WIN_BUILDER)
    /\ CURRENT_CPP_COMPILER' = os_choose(POSIX_CPP_COMPILER, WIN_CPP_COMPILER)
    /\ CURRENT_C_COMPILER' = os_choose(POSIX_C_COMPILER, WIN_C_COMPILER)
    /\ CURRENT_LINKER' = os_choose(POSIX_LINKER, WIN_LINKER)
    /\ CMAKE_FLAGS' = cmake_flags(CURRENT_BUILDER', CURRENT_CPP_COMPILER',
                                  CURRENT_C_COMPILER', CURRENT_LINKER')
    /\ pc' = "parse"
    /\ UNCHANGED <<host, args, fs, out, exit_code>>

\* mk.py 243
ParseArgs ==
    /\ pc = "parse"
    /\ args' = parse_args(argv)
    /\ pc' = "override"
    /\ UNCHANGED <<host, globals, fs, out, exit_code>>

\* after, with build dispatched before clean
after_build_before_clean(p) ==
    CASE p = "format" -> "spell"
      [] p = "spell" -> "build"
      [] p = "build" -> "clean"
      [] p = "clean" -> "clear_cache"
      [] p = "clear_cache" -> "test"
      [] p = "test" -> "exit"

\* the command the dispatcher reaches first, and the one after each
first_command == "format"
after(p) ==
    CASE p = "format" -> "spell"
      [] p = "spell" -> "clean"
      [] p = "clean" -> "clear_cache"
      [] p = "clear_cache" -> "build"
      [] p = "build" -> "test"
      [] p = "test" -> "exit"

\* mk.py 245-252: the overrides reassign the four globals, nothing else
Override ==
    /\ pc = "override"
    /\ CURRENT_BUILDER' =
           IF args.builder /= None THEN args.builder ELSE CURRENT_BUILDER
    /\ CURRENT_C_COMPILER' =
           IF args.c_compiler /= None THEN args.c_compiler ELSE CURRENT_C_COMPILER
    /\ CURRENT_CPP_COMPILER' =
           IF args.cpp_compiler /= None THEN args.cpp_compiler
           ELSE CURRENT_CPP_COMPILER
    /\ CURRENT_LINKER' =
           IF args.linker /= None THEN args.linker ELSE CURRENT_LINKER
    /\ pc' = first_command
    /\ UNCHANGED <<host, CMAKE_FLAGS, args, fs, out, exit_code>>

\* the command at p went as r: an exception nobody catches ends the process
\* with a traceback and status 1; the end of the script ends it with status 0
Went(p, r) ==
    /\ out' = out \o r.ev
                  \o (IF r.raised THEN << Ev(p, "Traceback", << >>, 1) >> ELSE << >>)
    /\ build_exists' = r.be
    /\ cache_exists' = r.ce
    /\ bin_files' = r.bf
    /\ pc' = IF r.raised THEN "exit" ELSE after(p)
    /\ exit_code' = IF r.raised THEN 1
                    ELSE IF after(p) = "exit" THEN 0 ELSE exit_code
    /\ UNCHANGED <<host, globals, args>>

\* the command at p was not requested
Skipped(p) ==
    Went(p, Res(<< >>, FALSE, build_exists, cache_exists, bin_files))

\* mk.py 254-255
Format ==
    /\ pc = "format"
    /\ IF args.fmt
       THEN \E r \in command_format(build_exists, cache_exists, bin_files) :
                Went("format", r)
       ELSE Skipped("format")

\* mk.py 256-257
Spell ==
    /\ pc = "spell"
    /\ IF args.spell
       THEN \E r \in command_spell(build_exists, cache_exists, bin_files) :
                Went("spell", r)
       ELSE Skipped("spell")

\* mk.py 258-259
Clean ==
    /\ pc = "clean"
    /\ IF args.clean
       THEN \E r \in command_clean(build_exists, cache_exists, bin_files) :
                Went("clean", r)
       ELSE Skipped("clean")

\* mk.py 260-261
ClearCache ==
    /\ pc = "clear_cache"
    /\ IF args.clear_cache
       THEN \E r \in command_clear_cache(build_exists, cache_exists, bin_files) :
                Went("clear_cache", r)
       ELSE Skipped("clear_cache")

\* mk.py 262-267
Build ==
    /\ pc = "build"
    /\ IF args.build /= None
       THEN \E r \in command_build("build",
                                   IF args.build = "debug" THEN DEBUG_FLAGS
                                   ELSE RELEASE_FLAGS,
                                   produced, build_exists, cache_exists, bin_files) :
                Went("build", r)
       ELSE Skipped("build")

\* mk.py 268-269
Test ==
    /\ pc = "test"
    /\ IF args.test /= None
       THEN \E r \in command_test(args.test, produced, build_exists,
                                  cache_exists, bin_files) :
                Went("test", r)
       ELSE Skipped("test")

Next ==
    \/ Load
    \/ ParseArgs
    \/ Override
    \/ Format
    \/ Spell
    \/ Clean
    \/ ClearCache
    \/ Build
    \/ Test

Spec == Init /\ [][Next]_vars

-----------------------------------------------------------------------------
(* Vocabulary of the properties.                                           *)

Idx == 1..Len(out)

StartsWith(s, prefix) ==
    Len(s) >= Len(prefix) /\ SubSeq(s, 1, Len(prefix)) = prefix

IsConfigure(e) ==
    /\ e.kind = "RUN"
    /\ Len(e.words) >= 2
    /\ e.words[1] = "cmake"
    /\ e.words[2] /= "--build"

IsBuildDriver(e) == e.kind = "RUN" /\ e.words = <<"cmake", "--build", "build">>

\* a test binary is launched
IsTestRun(e) == e.act = "test" /\ e.kind = "RUN" /\ e.words[1] /= "cmake"

\* the test directory is scanned or a test binary is launched
IsTestStep(e) ==
    \/ IsTestRun(e)
    \/ e.act = "test" /\ e.kind = "INFO"
    \/ e.act = "test" /\ e.kind = "header" /\ e.words = <<"Running tests">>

Started(a) == \E i \in Idx : out[i].act = a

FlagOf(a) ==
    CASE a = "format" -> "--fmt"
      [] a = "spell" -> "--spell"
      [] a = "clean" -> "--clean"
      [] a = "clear_cache" -> "--clear-cache"
      [] a = "build" -> "--build"
      [] a = "test" -> "--test"

\* the action's flag is on the command line
Requested(a) == \E k \in 1..Len(argv) : argv[k].opt = FlagOf(a)

\* the value of an option on the command line (the last one given), or None
RECURSIVE Given(_, _)
Given(o, k) ==
    IF k = 0 THEN None
    ELSE IF argv[k].opt = o THEN argv[k].val ELSE Given(o, k - 1)
Override_of(o) == Given(o, Len(argv))

HostDefault(posix, win) == IF os_name = "posix" THEN posix ELSE win

-----------------------------------------------------------------------------
(* C1.  Whatever the order of the action flags on the command line, the    *)
(* requested actions run in the order format, spell-check, clean,          *)
(* clear-cache, build, test: everything an action prints or launches comes *)
(* after everything of the actions before it in that order, and only       *)
(* requested actions run.                                                  *)

FixedOrder == <<"format", "spell", "clean", "clear_cache", "build", "test">>
Rank(a) == CHOOSE r \in 1..Len(FixedOrder) : FixedOrder[r] = a

C1_FixedActionOrder ==
    /\ \A i, j \in Idx : i < j => Rank(out[i].act) <= Rank(out[j].act)
    /\ \A i \in Idx : Requested(out[i].act)

\* C1, witness: two actions given in the reverse of the fixed order have
\* both run
C1_Witness ==
    /\ pc = "exit"
    /\ \E k, l \in 1..Len(argv) :
          /\ k < l
          /\ argv[k].opt = "--test"
          /\ argv[l].opt = "--clean"
    /\ Started("clean")
    /\ Started("test")

-----------------------------------------------------------------------------
(* C2.  The exit code is 0 exactly when every launched subprocess exited 0 *)
(* and every file-system operation (removing the build directory, removing *)
(* the cache file) succeeded.  The code never reads a return code and      *)
(* catches the failure of the removal of the build directory, so this      *)
(* fails.                                                                  *)

AllSucceeded ==
    \A i \in Idx :
        /\ out[i].kind = "RUN" => out[i].rc = 0
        /\ out[i].kind /= "ERROR"
        /\ out[i].kind /= "Traceback"

C2_ExitCodeReflectsFailures ==
    pc = "exit" => (exit_code = 0 <=> AllSucceeded)

-----------------------------------------------------------------------------
(* C3.  When the generator run by the build action exits non-zero, the     *)
(* build action launches no build driver afterwards.  The code launches    *)
(* cmake --build whatever the generator returned, so this fails.           *)

C3_NoBuildAfterFailedConfigure ==
    \A i, j \in Idx :
        ( /\ i < j
          /\ out[i].act = "build"
          /\ IsConfigure(out[i])
          /\ out[i].rc = 1
          /\ out[j].act = "build" )
        => ~IsBuildDriver(out[j])

-----------------------------------------------------------------------------
(* C4.  After a generator or build driver that exited non-zero, no test    *)
(* binary is discovered or launched in the same run.  The code goes on to  *)
(* the tests, so this fails.                                               *)

C4_NoTestAfterFailedBuild ==
    \A i, j \in Idx :
        ( /\ i < j
          /\ IsConfigure(out[i]) \/ IsBuildDriver(out[i])
          /\ out[i].rc = 1 )
        => ~IsTestStep(out[j])

-----------------------------------------------------------------------------
(* C5.  When test is requested without build, the test action first runs   *)
(* the build step: its first launch is the generator when the build        *)
(* directory is absent and the build driver otherwise, and every scan of   *)
(* the test directory and every launch of a test binary comes after a      *)
(* launch of the build driver (itself after the generator when the         *)
(* directory was absent), whatever the pattern.                            *)

NewOut == SubSeq(out', Len(out) + 1, Len(out'))

BuildStepFirst(new, absent) ==
    /\ \E i \in 1..Len(new) :
          /\ new[i].kind = "RUN"
          /\ \A h \in 1..(i - 1) : new[h].kind /= "RUN"
          /\ IF absent THEN IsConfigure(new[i]) ELSE IsBuildDriver(new[i])
    /\ \A i \in 1..Len(new) :
          IsTestStep(new[i]) =>
              \E j \in 1..(i - 1) :
                  /\ IsBuildDriver(new[j])
                  /\ absent => \E k \in 1..(j - 1) : IsConfigure(new[k])

C5_TestBuildsFirst ==
    [][ (pc = "test" /\ args.test /= None /\ args.build = None)
        => BuildStepFirst(NewOut, ~build_exists) ]_vars

\* C5, witness: a test-only run with a pattern that configured, built and
\* launched a test binary
C5_Witness ==
    /\ pc = "exit"
    /\ ~Requested("build")
    /\ args.test \notin {None, "all"}
    /\ \E i, j, k \in Idx :
          /\ i < j
          /\ j < k
          /\ out[i].act = "test" /\ IsConfigure(out[i])
          /\ out[j].act = "test" /\ IsBuildDriver(out[j])
          /\ IsTestRun(out[k])

-----------------------------------------------------------------------------
(* C6.  When clear-cache is requested and the cache file is absent, the    *)
(* failure is reported and the run goes on: a requested build is started,  *)
(* and so is a requested test when no build is requested (a test after a   *)
(* requested build is C4's matter).  os.remove raises FileNotFoundError,   *)
(* nothing catches it, and the process ends there, so this fails.          *)

ClearCacheFailed ==
    \E i \in Idx :
        out[i].act = "clear_cache" /\ out[i].kind \in {"ERROR", "Traceback"}

C6_ClearCacheNonFatal ==
    (pc = "exit" /\ ClearCacheFailed) =>
        /\ Requested("build") => Started("build")
        /\ (Requested("test") /\ ~Requested("build")) => Started("test")

-----------------------------------------------------------------------------
(* C7.  When the removal of the build directory fails, clean reports it    *)
(* and the run goes on: a requested clear-cache is started, a requested    *)
(* build is started, and so is a requested test when no build is           *)
(* requested.  clean itself returns normally, but over an absent directory *)
(* the cache file is absent too and clear-cache ends the process (C6), so  *)
(* this fails.                                                             *)

CleanFailed ==
    \E i \in Idx : out[i].act = "clean" /\ out[i].kind = "ERROR"

C7_CleanFailureNonFatal ==
    (pc = "exit" /\ CleanFailed) =>
        /\ Requested("clear_cache") => Started("clear_cache")
        /\ Requested("build") => Started("build")
        /\ (Requested("test") /\ ~Requested("build")) => Started("test")

-----------------------------------------------------------------------------
(* C8.  On a POSIX or Windows host, each generator command line carries,   *)
(* for the builder, the C++ compiler and the C compiler, the override      *)
(* given on the command line, or the default of the host when none is      *)
(* given, in the flag of that field; and a linker flag it carries names    *)
(* the overriding linker, or the default when none is given.               *)
(* CMAKE_FLAGS is built before the command line is parsed, so the          *)
(* overrides never reach it and this fails.                                *)

Merged(o, posix, win) ==
    IF Override_of(o) /= None THEN Override_of(o) ELSE HostDefault(posix, win)

MergedLinker == Merged("--linker", "mold", "lld-link")

\* e carries prefix exactly once, with this value
Carries(e, prefix, value) ==
    /\ \E k \in 1..Len(e.words) : e.words[k] = prefix \o value
    /\ \A k \in 1..Len(e.words) :
          StartsWith(e.words[k], prefix) => e.words[k] = prefix \o value

\* e carries prefix
Has(e, prefix) == \E k \in 1..Len(e.words) : StartsWith(e.words[k], prefix)

ExeLinker == "-DCMAKE_EXE_LINKER_FLAGS="
SharedLinker == "-DCMAKE_SHARED_LINKER_FLAGS="

C8_OverridesReachConfigure ==
    os_name \in {"posix", "nt"} =>
    \A i \in Idx :
        IsConfigure(out[i]) =>
            /\ Carries(out[i], "-G=", Merged("--builder", "Ninja", "Ninja"))
            /\ Carries(out[i], "-DCMAKE_CXX_COMPILER=",
                       Merged("--cpp-compiler", "clang++", "clang-cl"))
            /\ Carries(out[i], "-DCMAKE_C_COMPILER=",
                       Merged("--c-compiler", "clang", "clang-cl"))
            /\ Has(out[i], ExeLinker) =>
                   Carries(out[i], ExeLinker, "'-fuse-ld=" \o MergedLinker \o "'")
            /\ Has(out[i], SharedLinker) =>
                   Carries(out[i], SharedLinker, "'-fuse-ld=" \o MergedLinker \o "'")

-----------------------------------------------------------------------------
(* C9.  On a POSIX or Windows host, a generator command line carries the   *)
(* two linker flags exactly when the merged linker (--linker when given,   *)
(* else the default of the host) is "mold".  The test on the linker is     *)
(* made on the default, before --linker is read, so this fails.            *)

C9_LinkerFlagsIffMold ==
    os_name \in {"posix", "nt"} =>
    \A i \in Idx :
        IsConfigure(out[i]) =>
            /\ Has(out[i], ExeLinker) <=> MergedLinker = "mold"
            /\ Has(out[i], SharedLinker) <=> MergedLinker = "mold"

-----------------------------------------------------------------------------
(* C10.  The words of a generator command line come in a fixed order:      *)
(* cmake, the generator flag, the C++ compiler flag, the C compiler flag,  *)
(* the two linker flags or neither, the four flags of the profile          *)
(* (build type, debug, logging, tests), then -S . -B build.                *)
(* As stated, with the profile flags on every generator command line, it   *)
(* fails: the generator run by the test action gets no profile flags.      *)
(* Amended: the four profile flags, those of the profile given to --build, *)
(* are there when the build action runs the generator, and no profile flag *)
(* is there when the test action runs it.                                  *)

ProfileOnLine == IF Override_of("--build") = "release" THEN "Release" ELSE "Debug"

ConfigureShape(e, bundle) ==
    LET w == e.words
        n == Len(w)
        linker == n >= 5 /\ StartsWith(w[5], ExeLinker)
        base == IF linker THEN 6 ELSE 4
    IN  /\ n = base + (IF bundle THEN 4 ELSE 0) + 4
        /\ w[1] = "cmake"
        /\ StartsWith(w[2], "-G=")
        /\ StartsWith(w[3], "-DCMAKE_CXX_COMPILER=")
        /\ StartsWith(w[4], "-DCMAKE_C_COMPILER=")
        /\ IF linker THEN StartsWith(w[6], SharedLinker)
           ELSE ~Has(e, ExeLinker) /\ ~Has(e, SharedLinker)
        /\ bundle =>
              /\ w[base + 1] = "-DCMAKE_BUILD_TYPE=" \o ProfileOnLine
              /\ StartsWith(w[base + 2], "-DPSH_DEBUG=")
              /\ StartsWith(w[base + 3], "-DPSH_ENABLE_LOGGING=")
              /\ StartsWith(w[base + 4], "-DPSH_BUILD_TESTS=")
        /\ ~bundle => ~Has(e, "-DCMAKE_BUILD_TYPE=") /\ ~Has(e, "-DPSH_")
        /\ SubSeq(w, n - 3, n) = <<"-S", ".", "-B", "build">>

\* C10 as stated: every generator command line has the four profile flags
\* between the toolchain flags and the paths
C10_ProfileFlagsAlways ==
    \A i \in Idx : IsConfigure(out[i]) => ConfigureShape(out[i], TRUE)

\* C10 as amended: the words come in the fixed order, with the four profile
\* flags exactly on the generator command lines of the build action
C10_ConfigureWordOrder ==
    \A i \in Idx :
        IsConfigure(out[i]) => ConfigureShape(out[i], out[i].act = "build")

\* C10, witness: one run in which the build action and then the test action ran the
\* generator, the first with the linker flags
C10_Witness ==
    /\ pc = "exit"
    /\ \E i, j \in Idx :
          /\ out[i].act = "build" /\ IsConfigure(out[i])
          /\ Has(out[i], ExeLinker)
          /\ out[j].act = "test" /\ IsConfigure(out[j])

-----------------------------------------------------------------------------
(* C11.  A build step (that of the build action, and that of the test      *)
(* action, which comes second when both are requested) that starts with    *)
(* the build directory present launches no generator and launches the      *)
(* build driver exactly once.                                              *)

Configures(new) == { i \in 1..Len(new) : IsConfigure(new[i]) }
Drivers(new) == { i \in 1..Len(new) : IsBuildDriver(new[i]) }

BuildStepStarts ==
    \/ pc = "build" /\ args.build /= None
    \/ pc = "test" /\ args.test /= None

C11_NoConfigureOverExistingDir ==
    [][ (BuildStepStarts /\ build_exists)
        => /\ Configures(NewOut) = {}
           /\ Cardinality(Drivers(NewOut)) = 1 ]_vars

\* C11, witness: a run with build and test over a directory that was there
\* from the start: two build steps, two build-driver launches, no generator
C11_Witness ==
    /\ pc = "exit"
    /\ \E i, j \in Idx :
          /\ i < j
          /\ out[i].act = "build" /\ IsBuildDriver(out[i])
          /\ out[j].act = "test" /\ IsBuildDriver(out[j])
    /\ \A i \in Idx : ~IsConfigure(out[i])

-----------------------------------------------------------------------------
(* C12.  When build is requested with profile release and the build        *)
(* directory is absent, the generator is launched exactly once, with the   *)
(* Release flags, then the build driver exactly once, and the directory is *)
(* there afterwards.                                                       *)
(* As stated it fails: a generator that cannot be launched ends the run    *)
(* before the build driver, and one that exits non-zero may leave no       *)
(* directory.  Amended: the generator is launched exactly once, with the   *)
(* Release flags, before anything else; when it exits 0 the build driver   *)
(* is then launched exactly once and the directory is there afterwards.    *)

ReleaseBundle ==
    << "-DCMAKE_BUILD_TYPE=Release", "-DPSH_DEBUG=OFF",
       "-DPSH_ENABLE_LOGGING=OFF", "-DPSH_BUILD_TESTS=ON" >>

HasBundle(e, bundle) ==
    \E k \in 1..Len(e.words) :
        /\ k + Len(bundle) - 1 <= Len(e.words)
        /\ SubSeq(e.words, k, k + Len(bundle) - 1) = bundle

ReleaseBuildStarts == pc = "build" /\ args.build = "release" /\ ~build_exists

\* the generator once, with the Release flags, as the first launch
OneReleaseConfigure(new) ==
    /\ Cardinality(Configures(new)) = 1
    /\ \A i \in Configures(new) :
          /\ HasBundle(new[i], ReleaseBundle)
          /\ \A h \in 1..(i - 1) : new[h].kind /= "RUN"

\* then the build driver once
OneDriverAfter(new) ==
    /\ Cardinality(Drivers(new)) = 1
    /\ \A i \in Configures(new) : \A j \in Drivers(new) : i < j

\* C12 as stated
C12_ReleaseBuildFromScratch ==
    [][ ReleaseBuildStarts
        => /\ OneReleaseConfigure(NewOut)
           /\ OneDriverAfter(NewOut)
           /\ build_exists' ]_vars

\* C12 as amended
C12_ReleaseBuildWhenConfigured ==
    [][ ReleaseBuildStarts
        => /\ OneReleaseConfigure(NewOut)
           /\ (\A i \in Configures(NewOut) : NewOut[i].rc = 0)
                 => OneDriverAfter(NewOut) /\ build_exists' ]_vars

\* C12, witness: a release build from an absent directory whose generator
\* and build driver both exited 0
C12_Witness ==
    /\ pc = "exit"
    /\ Override_of("--build") = "release"
    /\ build_exists
    /\ \E i, j \in Idx :
          /\ i < j
          /\ out[i].act = "build" /\ IsConfigure(out[i]) /\ out[i].rc = 0
          /\ out[j].act = "build" /\ IsBuildDriver(out[j]) /\ out[j].rc = 0

-----------------------------------------------------------------------------
(* Vocabulary of the test step.                                            *)

\* the test action is past its build step: the build driver was launched
TestStepReached ==
    \E i \in Idx :
        out[i].act = "test" /\ IsBuildDriver(out[i]) /\ out[i].rc /= LaunchError

\* the launches of test binaries, in order
TestRuns == { i \in Idx : IsTestRun(out[i]) }

\* the test directory was scanned
Scanned ==
    \E i \in Idx : out[i].act = "test" /\ out[i].kind = "header"
                   /\ out[i].words = <<"Running tests">>

\* the pattern names an entry of the test directory (the launches of test
\* binaries leave the directory as it was when the pattern was looked up)
ExactPattern == build_exists /\ args.test \in bin_files

EndsWith(s, suffix) ==
    Len(s) >= Len(suffix)
    /\ SubSeq(s, Len(s) - Len(suffix) + 1, Len(s)) = suffix

Contains(s, sub) ==
    \E k \in 1..(Len(s) + 1) :
        k + Len(sub) - 1 <= Len(s) /\ SubSeq(s, k, k + Len(sub) - 1) = sub

Suffix == IF os_name = "posix" THEN "" ELSE ".exe"

\* a name with the test prefix and the suffix of the host
IsTestName(n) ==
    StartsWith(n, "test") /\ EndsWith(n, Suffix) /\ Len(n) >= 4 + Len(Suffix)

\* what stands between the prefix and the suffix
Middle(n) == SubSeq(n, 5, Len(n) - Len(Suffix))

PathOf(n) == "build/bin/" \o n

-----------------------------------------------------------------------------
(* C13.  When the pattern names an existing entry of the test directory    *)
(* (and is not "all"), the test step launches exactly one subprocess, the  *)
(* binary at that path under the test directory, and does not scan the     *)
(* directory.  The code launches the bare pattern, run_bin(pattern), not   *)
(* BIN_DIR / pattern, so this fails.                                       *)

C13_ExactPathRunsThatBinary ==
    (TestStepReached /\ args.test /= "all" /\ ExactPattern) =>
        /\ Cardinality(TestRuns) = 1
        /\ \A i \in TestRuns : out[i].words = << PathOf(args.test) >>
        /\ ~Scanned

-----------------------------------------------------------------------------
(* C14.  For a pattern S that is neither "all" nor an existing entry, the  *)
(* binaries selected are exactly the entries whose name begins with the    *)
(* test prefix, ends with the suffix of the host and contains S anywhere   *)
(* in the name, and they are launched in lexicographic order of their      *)
(* path.                                                                   *)
(* As stated it fails: the scan is the glob test*S*suffix, so an S that    *)
(* occurs only inside the prefix (or astride the suffix) selects nothing.  *)
(* Amended: S must occur between the test prefix and the suffix.           *)

SubstringPattern ==
    TestStepReached /\ args.test \notin {None, "all"} /\ ~ExactPattern

\* the selection of the code for the pattern on the command line
Selection == sorted(glob(search_for(args.test), bin_files))

SelectedAnywhere ==
    { PathOf(n) : n \in { m \in bin_files :
                          IsTestName(m) /\ Contains(m, args.test) } }

SelectedBetween ==
    { PathOf(n) : n \in { m \in bin_files :
                          IsTestName(m) /\ Contains(Middle(m), args.test) } }

\* the k-th launch of a test binary is the k-th of sel, one word, no argument
LaunchedInOrder(sel) ==
    \A i \in TestRuns :
        LET k == Cardinality({ j \in TestRuns : j <= i })
        IN  k <= Len(sel) /\ out[i].words = << sel[k] >>

SelectsExactly(expected) ==
    /\ { Selection[k] : k \in 1..Len(Selection) } = expected
    /\ \A k, l \in 1..Len(Selection) : k < l => str_lt(Selection[k], Selection[l])
    /\ LaunchedInOrder(Selection)

\* C14 as stated
C14_SubstringAnywhere == SubstringPattern => SelectsExactly(SelectedAnywhere)

\* C14 as amended
C14_SubstringBetweenPrefixAndSuffix ==
    SubstringPattern => SelectsExactly(SelectedBetween)

\* C14, witness: pattern "a" selected one of two entries with the test
\* prefix, or two entries, and launched what it selected
C14_Witness ==
    /\ SubstringPattern
    /\ args.test = "a"
    /\ Cardinality(bin_files) = 2
    /\ \A n \in bin_files : StartsWith(n, "test")
    /\ TestRuns /= {}
    /\ Cardinality(TestRuns) = Len(Selection)

-----------------------------------------------------------------------------
(* C15.  After a scan of the test directory every discovered binary is     *)
(* launched, in sorted order, each alone on its command line, whatever the *)
(* earlier ones returned: as many launches as binaries discovered.  A      *)
(* binary that exits non-zero does not stop the loop, but one that cannot  *)
(* be launched raises out of it (C16), so this fails.                      *)

\* the selection of the code at a scan
Discovered ==
    sorted(glob(search_for(IF args.test = "all" THEN None ELSE args.test),
                bin_files))

C15_EveryDiscoveredBinaryRuns ==
    Scanned =>
        /\ LaunchedInOrder(Discovered)
        /\ Cardinality(TestRuns) = Len(Discovered)

-----------------------------------------------------------------------------
(* C16.  When a discovered test binary cannot be launched, the run goes on *)
(* with the binaries after it: each of them is launched too.               *)
(* subprocess.run raises OSError, nothing catches it and the process ends  *)
(* there, so this fails.                                                   *)

C16_LaunchFailureDoesNotStopTests ==
    \A i \in TestRuns :
        (Scanned /\ out[i].rc = LaunchError) =>
            \A k \in 1..Len(Discovered) :
                k > Cardinality({ j \in TestRuns : j <= i }) =>
                    \E j \in TestRuns :
                        j > i /\ out[j].words = << Discovered[k] >>

-----------------------------------------------------------------------------
(* C17.  On a host that is neither POSIX nor Windows the platform          *)
(* resolution fails and no action runs.  os_choose takes every os.name     *)
(* other than "posix" for Windows, so on such a host the requested actions *)
(* run with the Windows defaults and this fails.                           *)

C17_UnsupportedPlatformRunsNothing ==
    os_name \notin {"posix", "nt"} => out = << >>

-----------------------------------------------------------------------------
(* C18.  The test step with no pattern and the test step with the pattern  *)
(* "all" both scan the test directory and select every entry with the test *)
(* prefix and the suffix of the host, also when the directory holds an     *)
(* entry named "all"; what is launched is that selection, in order.        *)

AllPattern ==
    /\ Requested("test")
    /\ Override_of("--test") \in {None, "all"}
    /\ TestStepReached

AllTestBinaries == { PathOf(n) : n \in { m \in bin_files : IsTestName(m) } }

C18_NoPatternIsAll ==
    AllPattern =>
        /\ Scanned
        /\ { Discovered[k] : k \in 1..Len(Discovered) } = AllTestBinaries
        /\ LaunchedInOrder(Discovered)
        /\ \A i \in TestRuns : out[i].words[1] \in AllTestBinaries

\* C18, witness: --test all over a directory that holds an entry named
\* "all" beside a test binary, which was launched
C18_Witness ==
    /\ AllPattern
    /\ Override_of("--test") = "all"
    /\ "all" \in bin_files
    /\ TestRuns /= {}

-----------------------------------------------------------------------------
(* C19.  After a clean that succeeded, a build or test action later in the *)
(* run finds the build directory absent and launches the generator before  *)
(* the build driver.                                                       *)
(* As stated it fails for a test action that follows a build action: the   *)
(* generator of the build action has written the directory again, and the  *)
(* test action launches the build driver alone.                            *)
(* Amended: the first build step after the clean (that of the build        *)
(* action, or that of the test action when build is not requested)         *)
(* launches the generator first, so that every build driver of the run     *)
(* comes after a generator.                                                *)

CleanSucceeded ==
    /\ Started("clean")
    /\ \A i \in Idx : out[i].act = "clean" => out[i].kind = "header"

\* the first launch of action a is the generator
ConfiguresFirst(a) ==
    \A i \in Idx :
        ( /\ out[i].act = a
          /\ out[i].kind = "RUN"
          /\ \A h \in 1..(i - 1) : ~(out[h].act = a /\ out[h].kind = "RUN") )
        => IsConfigure(out[i])

\* C19 as stated
C19_EveryLaterActionConfigures ==
    CleanSucceeded => ConfiguresFirst("build") /\ ConfiguresFirst("test")

\* C19 as amended
C19_FirstBuildStepConfigures ==
    CleanSucceeded =>
        /\ ConfiguresFirst(IF Requested("build") THEN "build" ELSE "test")
        /\ \A j \in Idx :
              IsBuildDriver(out[j]) => \E i \in 1..(j - 1) : IsConfigure(out[i])

\* C19, witness: clean removed the directory and the test action, with no
\* build requested, launched the generator and then the build driver
C19_Witness ==
    /\ pc = "exit"
    /\ CleanSucceeded
    /\ ~Requested("build")
    /\ \E i, j \in Idx :
          /\ i < j
          /\ out[i].act = "test" /\ IsConfigure(out[i])
          /\ out[j].act = "test" /\ IsBuildDriver(out[j])

-----------------------------------------------------------------------------
(* C20.  A generator launched by the test action gets the toolchain flags  *)
(* and the path arguments only: none of the Debug or Release flags,        *)
(* whatever profile --build was given in the same run.  A generator        *)
(* command line with profile flags comes from the build action.            *)

DebugBundle ==
    << "-DCMAKE_BUILD_TYPE=Debug", "-DPSH_DEBUG=ON",
       "-DPSH_ENABLE_LOGGING=ON", "-DPSH_BUILD_TESTS=ON" >>

ProfileWords ==
    { DebugBundle[k] : k \in 1..4 } \cup { ReleaseBundle[k] : k \in 1..4 }

IsToolchainWord(w) ==
    \/ StartsWith(w, "-G=")
    \/ StartsWith(w, "-DCMAKE_CXX_COMPILER=")
    \/ StartsWith(w, "-DCMAKE_C_COMPILER=")
    \/ StartsWith(w, ExeLinker)
    \/ StartsWith(w, SharedLinker)

ToolchainAndPathsOnly(e) ==
    LET n == Len(e.words)
    IN  /\ n >= 8
        /\ e.words[1] = "cmake"
        /\ SubSeq(e.words, n - 3, n) = <<"-S", ".", "-B", "build">>
        /\ \A k \in 2..(n - 4) : IsToolchainWord(e.words[k])

C20_TestConfigureHasNoProfile ==
    \A i \in Idx :
        IsConfigure(out[i]) =>
            /\ out[i].act = "test" => ToolchainAndPathsOnly(out[i])
            /\ (\E k \in 1..Len(out[i].words) : out[i].words[k] \in ProfileWords)
                  => out[i].act = "build"

\* C20, witness: --build release and --test in one run, the generator
\* launched by the build action with the Release flags and again by the
\* test action
C20_Witness ==
    /\ Override_of("--build") = "release"
    /\ \E i, j \in Idx :
          /\ out[i].act = "build" /\ IsConfigure(out[i])
          /\ HasBundle(out[i], ReleaseBundle)
          /\ out[j].act = "test" /\ IsConfigure(out[j])

====
